---- MODULE Spec2Model ----
(***************************************************************************)
(* Model of google_trend_crawl.py: the chunk planner, the cached chunk     *)
(* fetcher, the edge validator, the chain-link rescaler and the run        *)
(* orchestrator (main), together with the background restart timer.        *)
(*                                                                         *)
(* Dates are day numbers counted from START_DATE (2023-01-01 = 0).         *)
(* scaled_value is kept as an exact fraction <<numerator, denominator>>.   *)
(***************************************************************************)
EXTENDS Integers, Sequences, FiniteSets, TLC

\* ------------------------------------------------------------ configuration
START_DATE == 0
END_DATE == 881
CHUNK_DAYS == 270
OVERLAP_DAYS == 1

\* ------------------------------------------------------------------ bounds
\* number of times the process is started (first start + re-executions)
MaxRuns == 2
\* windows of one execution history whose response departs from the daily series
MaxDepartures == 1
\* largest value of a point in the chunk sets handed to the validator and
\* the rescaler on their own
MaxValue == 2

\* ------------------------------------------------------- exact arithmetic
Abs(x) == IF x < 0 THEN -x ELSE x

RECURSIVE Gcd(_, _)
Gcd(a, b) == IF b = 0 THEN a ELSE Gcd(b, a % b)

\* a fraction in lowest terms with a positive denominator
Frac(n, d) ==
    LET g == Gcd(Abs(n), Abs(d))
        s == IF d < 0 THEN -1 ELSE 1
    IN  <<(s * n) \div g, (s * d) \div g>>

FromInt(n) == <<n, 1>>

Div(p, q) == Frac(p[1] * q[2], p[2] * q[1])

Mul(p, q) == Frac(p[1] * q[1], p[2] * q[2])

RECURSIVE Concat(_)
Concat(ss) == IF ss = <<>> THEN <<>> ELSE Head(ss) \o Concat(Tail(ss))

\* ------------------------------------------------------------ chunk planner
RECURSIVE generate_chunks_loop(_, _, _)
generate_chunks_loop(cur_start, end, chunks) ==
    IF cur_start <= end
    THEN LET m == cur_start + (CHUNK_DAYS - 1)
             cur_end == IF m < end THEN m ELSE end
             out == Append(chunks, <<cur_start, cur_end>>)
         IN  IF cur_end >= end
             THEN out
             ELSE generate_chunks_loop(cur_end - (OVERLAP_DAYS - 1), end, out)
    ELSE chunks

generate_chunks(start, end) == generate_chunks_loop(start, end, <<>>)

\* ------------------------------------------------------------ chunk fetcher
\* A timeline entry of the upstream response:
\*   date      >= 0 a parsable date string (as a day number), NoDate when the
\*             key is absent, empty or not a date (to_datetime coerces to NaT)
\*   timestamp >= 0 an integer timestamp (as a day number), NoTimestamp when
\*             the key is absent, BadTimestamp when int() cannot convert it
\*   value     [kind, n]: "number" an int/float n, "text" a string whose
\*             digits (commas and blanks removed) read n, "lt1" the string
\*             "<1", "empty" the string "", "none" null, "junk" any other
\*             string, "absent" no value key and no usable values array
NoDate == 0 - 1
NoTimestamp == 0 - 1
BadTimestamp == 0 - 2

Item(d, v) == [date |-> d, timestamp |-> NoTimestamp, value |-> [kind |-> "number", n |-> v]]

parse_value(val_raw) ==
    IF val_raw.kind \in {"lt1", "empty", "none"} THEN 0
    ELSE IF val_raw.kind = "number" THEN val_raw.n
    ELSE IF val_raw.kind = "text" THEN val_raw.n
    ELSE 0

\* int(item["timestamp"]) raises when the date is unusable and the timestamp
\* is present but not an integer
timeline_item_raises(item) ==
    item.date = NoDate /\ item.timestamp = BadTimestamp

\* the row of an entry as a sequence: <<>> for None, <<row>> otherwise
timeline_item_to_row(item) ==
    LET date_dt == IF item.date # NoDate THEN item.date
                   ELSE IF item.timestamp >= 0 THEN item.timestamp
                   ELSE NoDate
        val_int == IF item.value.kind = "absent" THEN 0 ELSE parse_value(item.value)
    IN  IF date_dt = NoDate THEN <<>> ELSE <<[date |-> date_dt, value |-> val_int]>>

RECURSIVE parse_rows(_)
parse_rows(timeline) ==
    IF timeline = <<>> THEN <<>>
    ELSE timeline_item_to_row(Head(timeline)) \o parse_rows(Tail(timeline))

parse_raises(timeline) == \E i \in DOMAIN timeline : timeline_item_raises(timeline[i])

\* the cache file holds the response as JSON text; the response is itself
\* decoded JSON, so dumping and loading it gives the same dict back
json_dumps(data) == [json |-> data]

json_loads(text) == text.json

cache_fp(keyword, begin, finish) == <<keyword, begin, finish>>

\* ----------------------------------------------------------- edge validator
Reason(msg, n) == [msg |-> msg, chunk |-> n]

NoReason == Reason("", 0)

\* the last chunk exempt from the test of the first value too
start_zero_not_last(frames, idx) ==
    frames[idx][1].value = 0 /\ idx # Len(frames)

start_zero(frames, idx) == frames[idx][1].value = 0

\* the exemption of the last chunk left out
end_zero_all(frames, idx) == frames[idx][Len(frames[idx])].value = 0

end_zero(frames, idx) ==
    frames[idx][Len(frames[idx])].value = 0 /\ idx # Len(frames)

\* every empty chunk reported before any value is looked at
edge_loop_empty_first(frames, idx) ==
    LET empties == {i \in idx..Len(frames) : frames[i] = <<>>}
    IN  IF empties # {}
        THEN <<TRUE, Reason("empty chunk", CHOOSE k \in empties : \A j \in empties : k <= j)>>
        ELSE IF \E i \in idx..Len(frames) : start_zero(frames, i) \/ end_zero(frames, i)
             THEN <<TRUE, Reason("zero start/end", 0)>>
             ELSE <<FALSE, NoReason>>

\* the verdict of the first loop at chunk idx, "" when the chunk passes
RECURSIVE edge_loop(_, _)
edge_loop(frames, idx) ==
    IF idx > Len(frames) THEN <<FALSE, NoReason>>
    ELSE IF frames[idx] = <<>> THEN <<TRUE, Reason("empty chunk", idx)>>
    ELSE IF start_zero(frames, idx) \/ end_zero(frames, idx)
         THEN <<TRUE, Reason("zero start/end", 0)>>
    ELSE edge_loop(frames, idx + 1)

RECURSIVE overlap_loop(_, _)
overlap_loop(frames, i) ==
    IF i > Len(frames) THEN <<FALSE, NoReason>>
    ELSE LET overlap_val_prev == frames[i - 1][Len(frames[i - 1])].value
             overlap_val_curr == frames[i][1].value
         IN  IF overlap_val_prev = 0 \/ overlap_val_curr = 0
             THEN <<TRUE, Reason("zero overlap", 0)>>
             ELSE overlap_loop(frames, i + 1)

\* the value column compared with the string "0": no zero test ever matches
has_bad_edges_str_zero(frames) ==
    LET empties == {i \in DOMAIN frames : frames[i] = <<>>}
    IN  IF frames = <<>> THEN <<TRUE, Reason("empty frames", 0)>>
        ELSE IF empties # {}
             THEN <<TRUE, Reason("empty chunk", CHOOSE k \in empties : \A j \in empties : k <= j)>>
             ELSE <<FALSE, NoReason>>

\* first values never tested: only emptiness and the last value of the
\* chunks before the last
has_bad_edges_ends_only(frames) ==
    IF frames = <<>> THEN <<TRUE, Reason("empty frames", 0)>>
    ELSE IF \E i \in DOMAIN frames : frames[i] = <<>>
         THEN <<TRUE, Reason("empty chunk", 0)>>
    ELSE IF \E i \in DOMAIN frames : end_zero(frames, i)
         THEN <<TRUE, Reason("zero start/end", 0)>>
    ELSE <<FALSE, NoReason>>

has_bad_edges(frames) ==
    IF frames = <<>> THEN <<TRUE, Reason("empty frames", 0)>>
    ELSE IF edge_loop(frames, 1)[1] THEN edge_loop(frames, 1)
    ELSE overlap_loop(frames, 2)

\* ------------------------------------------------------- chain-link rescaler
\* positions of the rows of chunk df dated day
DateMatches(df, day) == {k \in DOMAIN df : df[k].date = day}

First(S) == CHOOSE k \in S : \A j \in S : k <= j

WithScaled(row, sv) ==
    [date |-> row.date, value |-> row.value, season |-> row.season, scaled_value |-> sv]

\* .values[0] of an empty selection raises IndexError
rescale_raises_at(prev, curr) == DateMatches(prev, curr[1].date) = {}

\* the raw value of the previous chunk taken in place of its scaled value
scale_ratio_raw_prev(prev, curr) ==
    LET overlap_day == curr[1].date
        prev_val == prev[First(DateMatches(prev, overlap_day))].value
        curr_val == curr[First(DateMatches(curr, overlap_day))].value
    IN  IF curr_val # 0 THEN Div(FromInt(prev_val), FromInt(curr_val)) ELSE FromInt(1)

\* the ratio taken upside down
scale_chunk_inverted(prev, curr) ==
    LET overlap_day == curr[1].date
        prev_val == prev[First(DateMatches(prev, overlap_day))].scaled_value
        curr_val == curr[First(DateMatches(curr, overlap_day))].value
        ratio == IF prev_val[1] # 0 THEN Div(FromInt(curr_val), prev_val) ELSE FromInt(1)
    IN  [k \in DOMAIN curr |-> WithScaled(curr[k], Mul(FromInt(curr[k].value), ratio))]

scale_ratio(prev, curr) ==
    LET overlap_day == curr[1].date
        prev_val == prev[First(DateMatches(prev, overlap_day))].scaled_value
        curr_val == curr[First(DateMatches(curr, overlap_day))].value
    IN  IF curr_val # 0 THEN Div(prev_val, FromInt(curr_val)) ELSE FromInt(1)

scale_chunk(prev, curr) ==
    LET ratio == scale_ratio(prev, curr)
    IN  [k \in DOMAIN curr |-> WithScaled(curr[k], Mul(FromInt(curr[k].value), ratio))]

\* the result is [raised |-> TRUE] when a lookup raises, else the scaled chunks
RECURSIVE rescale_loop(_, _, _)
rescale_loop(frames, i, scaled) ==
    IF i > Len(frames) THEN [raised |-> FALSE, frames |-> scaled]
    ELSE IF frames[i] = <<>> \/ rescale_raises_at(scaled[Len(scaled)], frames[i])
         THEN [raised |-> TRUE, frames |-> <<>>]
    ELSE rescale_loop(frames, i + 1, Append(scaled, scale_chunk(scaled[Len(scaled)], frames[i])))

\* an empty first chunk has no value column to copy: KeyError
rescale_chunks(frames) ==
    IF frames = <<>> THEN [raised |-> FALSE, frames |-> <<>>]
    ELSE IF frames[1] = <<>> THEN [raised |-> TRUE, frames |-> <<>>]
    ELSE rescale_loop(frames, 2,
            <<[k \in DOMAIN frames[1] |->
                 WithScaled(frames[1][k], FromInt(frames[1][k].value))]>>)

\* ------------------------------------------------------------- output files
NoFile == [exists |-> FALSE, lines |-> <<>>]

HeaderLine == [kind |-> "header"]

\* the file opened with mode "w": what it held is lost
append_csv_truncating(file, rows) ==
    [exists |-> TRUE,
     lines |-> (IF file.exists THEN <<>> ELSE <<HeaderLine>>) \o rows]

\* DataFrame.to_csv(path, mode="a", header=not path.exists())
append_csv(file, rows) ==
    [exists |-> TRUE,
     lines |-> file.lines \o (IF file.exists THEN <<>> ELSE <<HeaderLine>>) \o rows]

\* p.write_text("") for a missing file
touch(file) == IF file.exists THEN file ELSE [exists |-> TRUE, lines |-> <<>>]

with_season(df, n) ==
    [k \in DOMAIN df |-> [date |-> df[k].date, value |-> df[k].value, season |-> n]]

raw_lines(name, frames) ==
    LET raw_all == Concat(frames)
    IN  [k \in DOMAIN raw_all |->
            [kind |-> "row", name |-> name, date |-> raw_all[k].date,
             value |-> raw_all[k].value, season |-> raw_all[k].season]]

scaled_lines(name, frames) ==
    LET scaled_all == Concat(frames)
    IN  [k \in DOMAIN scaled_all |->
            [kind |-> "row", name |-> name, date |-> scaled_all[k].date,
             value |-> scaled_all[k].value, season |-> scaled_all[k].season,
             scaled_value |-> scaled_all[k].scaled_value]]

bad_lines(name, reason) == <<[kind |-> "row", name |-> name, reason |-> reason]>>

\* ------------------------------------------------------------------- inputs
\* the name column of final.csv after dropna().unique()
names == <<"A", "B">>

schedule == generate_chunks(START_DATE, END_DATE)

\* What the upstream source answers for the window begin..finish: the daily
\* series of the window, or one of the departures from it.
Response(timeline) == [ok |-> TRUE, timeline |-> timeline]

RequestFailure == [ok |-> FALSE, timeline |-> <<>>]

Nominal(begin, finish) == Response(<<Item(begin, 1), Item(finish, 2)>>)

Departures(begin, finish) ==
    { RequestFailure,
      Response(<<>>),
      Response(<<Item(begin, 0), Item(finish, 2)>>),
      Response(<<Item(begin, 1), Item(finish, 0)>>),
      Response(<<Item(begin + 1, 1), Item(finish, 2)>>),
      Response(<<Item(begin, 1),
                 [date |-> NoDate, timestamp |-> NoTimestamp,
                  value |-> [kind |-> "number", n |-> 5]],
                 Item(finish, 2)>>),
      Response(<<Item(begin, 1),
                 [date |-> NoDate, timestamp |-> BadTimestamp,
                  value |-> [kind |-> "number", n |-> 5]],
                 Item(finish, 2)>>) }

NoData == [ok |-> TRUE, timeline |-> <<>>]

\* -------------------------------------------------------------------- state
VARIABLES
    pc,             \* where the process is: "start", "fetch", "cache", "parse",
                    \* "validate", "write_raw", "rescale", "write_scaled",
                    \* "done" (main returned), "crashed" (uncaught exception),
                    \* "interrupted" (KeyboardInterrupt caught at line 283)
    err,            \* the uncaught exception of a crashed process
    kw,             \* main: position of the current keyword in names
    idx,            \* main: position of the current window in schedule
    raw_frames,     \* main: the chunks fetched so far for the keyword
    scaled_frames,  \* main: the result of rescale_chunks
    data,           \* fetch_chunk: the response dict
    cache,          \* CACHE_DIR: cache file path -> JSON text
    raw_csv,        \* RAW_CSV
    scaled_csv,     \* SCALED_CSV
    bad_csv,        \* BAD_CSV
    requests,       \* remote requests the upstream source has received
    run,            \* how many times the process has been started
    departures,     \* responses so far that departed from the daily series
    base,           \* length of each output file, and number of remote
                    \* requests, when this process started
    returned,       \* cache file path -> rows of the first call that returned
    fn_pc,          \* the functions on their own: "draw", "validated", "rescaled"
    fn_frames,      \* ... their argument
    fn_verdict,     \* ... the result of has_bad_edges
    fn_scaled,      \* ... the result of rescale_chunks
    plan_pc,        \* generate_chunks on its own: "loop", "returned"
    plan_args,      \* ... start, end and the two configured lengths
    cur_start,      \* ... the loop variable
    chunks,         \* ... the windows appended so far
    item_pc,        \* timeline_item_to_row on its own: "draw", "returned", "raised"
    item,           \* ... its argument
    item_row,       \* ... its result, <<>> for None
    occ_pc,         \* editCSV.classify_csv: "call", "sleep", "normalize", "done"
    occ_row,        \* ... the row whose name is being classified
    occ_calls,      \* ... API calls made so far for that name
    occ_text,       \* ... the reply to the last call
    occ_out,        \* ... the categories returned so far, one per row
    crawl_pc,       \* crawl.main: "start", "channel", "done"
    crawl_ch,       \* ... position in trusted_channel_ids
    crawl_cache,    \* ... the cache dict main loaded and passes along
    crawl_file,     \* ... the content of CACHE_FILE
    all_videos,     \* ... main's result dict
    crawl_failed,   \* ... channels whose fetch failed in this run
    crawl_run       \* ... number of runs of the script started

main_vars == <<pc, err, kw, idx, raw_frames, scaled_frames, data, cache, raw_csv,
               scaled_csv, bad_csv, requests, run, departures, base, returned>>

fn_vars == <<fn_pc, fn_frames, fn_verdict, fn_scaled>>

plan_vars == <<plan_pc, plan_args, cur_start, chunks>>

item_vars == <<item_pc, item, item_row>>

occ_vars == <<occ_pc, occ_row, occ_calls, occ_text, occ_out>>

crawl_vars == <<crawl_pc, crawl_ch, crawl_cache, crawl_file, all_videos,
                crawl_failed, crawl_run>>

vars == <<pc, err, kw, idx, raw_frames, scaled_frames, data, cache, raw_csv,
          scaled_csv, bad_csv, requests, run, departures, base, returned,
          fn_pc, fn_frames, fn_verdict, fn_scaled,
          plan_pc, plan_args, cur_start, chunks, item_pc, item, item_row,
          occ_pc, occ_row, occ_calls, occ_text, occ_out,
          crawl_pc, crawl_ch, crawl_cache, crawl_file, all_videos,
          crawl_failed, crawl_run>>

key == cache_fp(names[kw], schedule[idx][1], schedule[idx][2])

Put(f, k, v) == [x \in DOMAIN f \cup {k} |-> IF x = k THEN v ELSE f[x]]

InitMain ==
    /\ pc = "start"
    /\ err = ""
    /\ kw = 1
    /\ idx = 1
    /\ raw_frames = <<>>
    /\ scaled_frames = <<>>
    /\ data = NoData
    /\ cache = <<>>
    /\ raw_csv = NoFile
    /\ scaled_csv = NoFile
    /\ bad_csv = NoFile
    /\ requests = 0
    /\ run = 1
    /\ departures = 0
    /\ base = [raw |-> 0, scaled |-> 0, bad |-> 0, requests |-> 0]
    /\ returned = <<>>

FnOff ==
    /\ fn_pc = "off"
    /\ fn_frames = <<>>
    /\ fn_verdict = <<FALSE, NoReason>>
    /\ fn_scaled = [raised |-> FALSE, frames |-> <<>>]

PlanOff ==
    /\ plan_pc = "off"
    /\ plan_args = [start |-> 0, end |-> 0, chunk_days |-> 1, overlap_days |-> 1]
    /\ cur_start = 0
    /\ chunks = <<>>

ItemOff ==
    /\ item_pc = "off"
    /\ item = Item(0, 0)
    /\ item_row = <<>>

OccOff ==
    /\ occ_pc = "off"
    /\ occ_row = 1
    /\ occ_calls = 0
    /\ occ_text = {}
    /\ occ_out = <<>>

CrawlOff ==
    /\ crawl_pc = "off"
    /\ crawl_ch = 1
    /\ crawl_cache = <<>>
    /\ crawl_file = <<>>
    /\ all_videos = <<>>
    /\ crawl_failed = {}
    /\ crawl_run = 1

Init == InitMain /\ FnOff /\ PlanOff /\ ItemOff /\ OccOff /\ CrawlOff

\* ------------------------------------------------------------ main, by step
\* lines 234-249: names and schedule are read, missing output files created
MainStart ==
    /\ pc = "start"
    /\ raw_csv' = touch(raw_csv)
    /\ scaled_csv' = touch(scaled_csv)
    /\ bad_csv' = touch(bad_csv)
    /\ pc' = IF names = <<>> THEN "done" ELSE "fetch"
    /\ UNCHANGED <<err, kw, idx, raw_frames, scaled_frames, data, cache, requests,
                   run, departures, base, returned>>
    /\ UNCHANGED <<fn_vars, plan_vars, item_vars, occ_vars, crawl_vars>>

\* fetch_chunk, lines 152-154: the cache file exists
FetchCached ==
    /\ pc = "fetch"
    /\ key \in DOMAIN cache
    /\ data' = json_loads(cache[key])
    /\ pc' = "parse"
    /\ UNCHANGED <<err, kw, idx, raw_frames, scaled_frames, cache, raw_csv,
                   scaled_csv, bad_csv, requests, run, departures, base, returned>>
    /\ UNCHANGED <<fn_vars, plan_vars, item_vars, occ_vars, crawl_vars>>

\* the remote request issued without looking at the cache
FetchRequestUncached ==
    /\ pc = "fetch"
    /\ \E resp \in {Nominal(key[2], key[3])} \cup
                   (IF departures < MaxDepartures
                    THEN Departures(key[2], key[3]) ELSE {}) :
          /\ departures' = IF resp = Nominal(key[2], key[3])
                           THEN departures ELSE departures + 1
          /\ IF resp.ok
             THEN /\ data' = resp
                  /\ pc' = "cache"
                  /\ err' = err
             ELSE /\ data' = data
                  /\ pc' = "crashed"
                  /\ err' = "RemoteFetchError"
    /\ requests' = requests + 1
    /\ UNCHANGED <<kw, idx, raw_frames, scaled_frames, cache, raw_csv, scaled_csv,
                   bad_csv, run, base, returned>>
    /\ UNCHANGED <<fn_vars, plan_vars, item_vars, occ_vars, crawl_vars>>

\* the response parsed before it is written to the cache
FetchRequestParseFirst ==
    /\ pc = "fetch"
    /\ key \notin DOMAIN cache
    /\ \E resp \in {Nominal(key[2], key[3])} \cup
                   (IF departures < MaxDepartures
                    THEN Departures(key[2], key[3]) ELSE {}) :
          /\ departures' = IF resp = Nominal(key[2], key[3])
                           THEN departures ELSE departures + 1
          /\ IF resp.ok
             THEN /\ data' = resp
                  /\ pc' = "parse"
                  /\ err' = err
             ELSE /\ data' = data
                  /\ pc' = "crashed"
                  /\ err' = "RemoteFetchError"
    /\ requests' = requests + 1
    /\ UNCHANGED <<kw, idx, raw_frames, scaled_frames, cache, raw_csv, scaled_csv,
                   bad_csv, run, base, returned>>
    /\ UNCHANGED <<fn_vars, plan_vars, item_vars, occ_vars, crawl_vars>>

\* fetch_chunk, lines 155-168: no cache file, one remote request
FetchRequest ==
    /\ pc = "fetch"
    /\ key \notin DOMAIN cache
    /\ \E resp \in {Nominal(key[2], key[3])} \cup
                   (IF departures < MaxDepartures
                    THEN Departures(key[2], key[3]) ELSE {}) :
          /\ departures' = IF resp = Nominal(key[2], key[3])
                           THEN departures ELSE departures + 1
          /\ IF resp.ok
             THEN /\ data' = resp
                  /\ pc' = "cache"
                  /\ err' = err
             ELSE /\ data' = data
                  /\ pc' = "crashed"
                  /\ err' = "RemoteFetchError"
    /\ requests' = requests + 1
    /\ UNCHANGED <<kw, idx, raw_frames, scaled_frames, cache, raw_csv, scaled_csv,
                   bad_csv, run, base, returned>>
    /\ UNCHANGED <<fn_vars, plan_vars, item_vars, occ_vars, crawl_vars>>

\* fetch_chunk, line 169
CacheWrite ==
    /\ pc = "cache"
    /\ cache' = Put(cache, key, json_dumps(data))
    /\ pc' = "parse"
    /\ UNCHANGED <<err, kw, idx, raw_frames, scaled_frames, data, raw_csv,
                   scaled_csv, bad_csv, requests, run, departures, base, returned>>
    /\ UNCHANGED <<fn_vars, plan_vars, item_vars, occ_vars, crawl_vars>>

\* fetch_chunk, lines 171-183, and main, lines 256-257
Parse ==
    /\ pc = "parse"
    /\ IF parse_raises(data.timeline)
       THEN /\ pc' = "crashed"
            /\ err' = "ValueError"
            /\ UNCHANGED <<idx, raw_frames, returned>>
       ELSE LET df == parse_rows(data.timeline)
            IN  /\ raw_frames' = Append(raw_frames, with_season(df, idx))
                /\ returned' = IF key \in DOMAIN returned THEN returned
                               ELSE Put(returned, key, df)
                /\ err' = err
                /\ IF idx < Len(schedule)
                   THEN idx' = idx + 1 /\ pc' = "fetch"
                   ELSE idx' = idx /\ pc' = "validate"
    /\ data' = NoData
    /\ UNCHANGED <<kw, scaled_frames, cache, raw_csv, scaled_csv, bad_csv, requests,
                   run, departures, base>>
    /\ UNCHANGED <<fn_vars, plan_vars, item_vars, occ_vars, crawl_vars>>

\* the for loop of line 251 moves on to the next keyword, or main returns
NextKeyword ==
    /\ raw_frames' = <<>>
    /\ scaled_frames' = <<>>
    /\ idx' = 1
    /\ IF kw < Len(names)
       THEN kw' = kw + 1 /\ pc' = "fetch"
       ELSE kw' = kw /\ pc' = "done"

\* the continue of line 264 left out: a rejected keyword is linked all the same
ValidateNoContinue ==
    /\ pc = "validate"
    /\ LET verdict == has_bad_edges(raw_frames)
       IN  IF verdict[1]
           THEN bad_csv' = append_csv(bad_csv, bad_lines(names[kw], verdict[2]))
           ELSE bad_csv' = bad_csv
    /\ pc' = "write_raw"
    /\ UNCHANGED <<kw, idx, raw_frames, scaled_frames>>
    /\ UNCHANGED <<err, data, cache, raw_csv, scaled_csv, requests, run, departures,
                   base, returned>>
    /\ UNCHANGED <<fn_vars, plan_vars, item_vars, occ_vars, crawl_vars>>

\* main, lines 260-264
Validate ==
    /\ pc = "validate"
    /\ LET verdict == has_bad_edges(raw_frames)
       IN  IF verdict[1]
           THEN /\ bad_csv' = append_csv(bad_csv, bad_lines(names[kw], verdict[2]))
                /\ NextKeyword
           ELSE /\ pc' = "write_raw"
                /\ UNCHANGED <<bad_csv, kw, idx, raw_frames, scaled_frames>>
    /\ UNCHANGED <<err, data, cache, raw_csv, scaled_csv, requests, run, departures,
                   base, returned>>
    /\ UNCHANGED <<fn_vars, plan_vars, item_vars, occ_vars, crawl_vars>>

\* main, lines 266-268
WriteRaw ==
    /\ pc = "write_raw"
    /\ raw_csv' = append_csv(raw_csv, raw_lines(names[kw], raw_frames))
    /\ pc' = "rescale"
    /\ UNCHANGED <<err, kw, idx, raw_frames, scaled_frames, data, cache, scaled_csv,
                   bad_csv, requests, run, departures, base, returned>>
    /\ UNCHANGED <<fn_vars, plan_vars, item_vars, occ_vars, crawl_vars>>

\* main, line 270
Rescale ==
    /\ pc = "rescale"
    /\ LET result == rescale_chunks(raw_frames)
       IN  IF result.raised
           THEN /\ pc' = "crashed"
                /\ err' = "IndexError"
                /\ UNCHANGED scaled_frames
           ELSE /\ pc' = "write_scaled"
                /\ err' = err
                /\ scaled_frames' = result.frames
    /\ UNCHANGED <<kw, idx, raw_frames, data, cache, raw_csv, scaled_csv, bad_csv,
                   requests, run, departures, base, returned>>
    /\ UNCHANGED <<fn_vars, plan_vars, item_vars, occ_vars, crawl_vars>>

\* main, lines 271-275
WriteScaled ==
    /\ pc = "write_scaled"
    /\ scaled_csv' = append_csv(scaled_csv, scaled_lines(names[kw], scaled_frames))
    /\ NextKeyword
    /\ UNCHANGED <<err, data, cache, raw_csv, bad_csv, requests, run, departures,
                   base, returned>>
    /\ UNCHANGED <<fn_vars, plan_vars, item_vars, occ_vars, crawl_vars>>

\* a fresh process image: module state is rebuilt, files and cache remain
Started ==
    /\ pc' = "start"
    /\ err' = ""
    /\ kw' = 1
    /\ idx' = 1
    /\ raw_frames' = <<>>
    /\ scaled_frames' = <<>>
    /\ data' = NoData
    /\ run' = run + 1
    /\ base' = [raw |-> Len(raw_csv.lines), scaled |-> Len(scaled_csv.lines),
                bad |-> Len(bad_csv.lines), requests |-> requests]
    /\ UNCHANGED <<cache, raw_csv, scaled_csv, bad_csv, requests, departures, returned>>
    /\ UNCHANGED <<fn_vars, plan_vars, item_vars, occ_vars, crawl_vars>>

Running == pc \notin {"done", "crashed", "interrupted"}

\* lines 280-284: KeyboardInterrupt anywhere in main is caught and logged, and
\* the process exits
Interrupt ==
    /\ Running
    /\ pc' = "interrupted"
    /\ err' = ""
    /\ kw' = 1
    /\ idx' = 1
    /\ raw_frames' = <<>>
    /\ scaled_frames' = <<>>
    /\ data' = NoData
    /\ UNCHANGED <<cache, raw_csv, scaled_csv, bad_csv, requests, run, departures,
                   base, returned>>
    /\ UNCHANGED <<fn_vars, plan_vars, item_vars, occ_vars, crawl_vars>>

\* lines 7-17: the timer thread re-executes the script while it is running
TimerRestart ==
    /\ Running
    /\ run < MaxRuns
    /\ Started

\* the script is run again after the process has ended
RunAgain ==
    /\ ~Running
    /\ run < MaxRuns
    /\ Started

Next ==
    \/ MainStart
    \/ FetchCached
    \/ FetchRequest
    \/ CacheWrite
    \/ Parse
    \/ Validate
    \/ WriteRaw
    \/ Rescale
    \/ WriteScaled
    \/ Interrupt
    \/ TimerRestart
    \/ RunAgain

Spec == Init /\ [][Next]_vars

\* ------------------------------------------- the functions on their own
\* chunk sets of up to three chunks as fetch_chunk and main build them:
\* rows of a date and a value, tagged with the season of their chunk
Dates == 0..1

Values == 0..MaxValue

ChunkCounts == 0..3

Lengths == 0..2

Rows == [date : Dates, value : Values]

Chunks == UNION {[1..n -> Rows] : n \in Lengths}

ChunkSets == UNION {[1..n -> Chunks] : n \in ChunkCounts}

Tagged(frames) == [i \in DOMAIN frames |-> with_season(frames[i], i)]

InitFn ==
    /\ pc = "off"
    /\ err = ""
    /\ kw = 1
    /\ idx = 1
    /\ raw_frames = <<>>
    /\ scaled_frames = <<>>
    /\ data = NoData
    /\ cache = <<>>
    /\ raw_csv = NoFile
    /\ scaled_csv = NoFile
    /\ bad_csv = NoFile
    /\ requests = 0
    /\ run = 1
    /\ departures = 0
    /\ base = [raw |-> 0, scaled |-> 0, bad |-> 0, requests |-> 0]
    /\ returned = <<>>
    /\ fn_pc = "draw"
    /\ \E frames \in ChunkSets : fn_frames = Tagged(frames)
    /\ fn_verdict = <<FALSE, NoReason>>
    /\ fn_scaled = [raised |-> FALSE, frames |-> <<>>]
    /\ PlanOff
    /\ ItemOff
    /\ OccOff
    /\ CrawlOff

CallHasBadEdges ==
    /\ fn_pc = "draw"
    /\ fn_verdict' = has_bad_edges(fn_frames)
    /\ fn_pc' = "validated"
    /\ UNCHANGED <<fn_frames, fn_scaled>>
    /\ UNCHANGED <<main_vars, plan_vars, item_vars, occ_vars, crawl_vars>>

CallRescaleChunks ==
    /\ fn_pc = "validated"
    /\ fn_scaled' = rescale_chunks(fn_frames)
    /\ fn_pc' = "rescaled"
    /\ UNCHANGED <<fn_frames, fn_verdict>>
    /\ UNCHANGED <<main_vars, plan_vars, item_vars, occ_vars, crawl_vars>>

NextFn ==
    \/ CallHasBadEdges
    \/ CallRescaleChunks

SpecFn == InitFn /\ [][NextFn]_vars

\* ------------------------------------------------ the planner on its own
\* generate_chunks by loop iteration, for drawn start and end and for drawn
\* values of the two module settings CHUNK_DAYS and OVERLAP_DAYS
MaxDay == 9

MaxChunkDays == 5

MaxOverlapDays == 3

\* no call that returns appends more than MaxDay + 1 windows; a loop that
\* would go on for ever is followed this far
WindowCap == MaxDay + 2

MainOff ==
    /\ pc = "off"
    /\ err = ""
    /\ kw = 1
    /\ idx = 1
    /\ raw_frames = <<>>
    /\ scaled_frames = <<>>
    /\ data = NoData
    /\ cache = <<>>
    /\ raw_csv = NoFile
    /\ scaled_csv = NoFile
    /\ bad_csv = NoFile
    /\ requests = 0
    /\ run = 1
    /\ departures = 0
    /\ base = [raw |-> 0, scaled |-> 0, bad |-> 0, requests |-> 0]
    /\ returned = <<>>

\* cur_end without the min(..., end)
window_end_unclamped(from, chunk_days, end) == from + (chunk_days - 1)

\* line 106: cur_end = min(cur_start + timedelta(days=CHUNK_DAYS - 1), end)
window_end(from, chunk_days, end) ==
    LET m == from + (chunk_days - 1)
    IN  IF m < end THEN m ELSE end

\* the break taken only past end, where the clamped cur_end never is
reached_end_never(cur_end, end) == cur_end > end

\* the break taken one day before end
reached_end_early(cur_end, end) == cur_end + 1 >= end

\* line 108: if cur_end >= end: break
reached_end(cur_end, end) == cur_end >= end

\* the next window begins overlap_days before the end of this one
next_start_before(cur_end, overlap_days) == cur_end - overlap_days

\* line 110: cur_start = cur_end - timedelta(days=OVERLAP_DAYS - 1)
next_start(cur_end, overlap_days) == cur_end - (overlap_days - 1)

\* lines 103-104
InitPlan ==
    /\ MainOff
    /\ FnOff
    /\ ItemOff
    /\ OccOff
    /\ CrawlOff
    /\ plan_pc = "loop"
    /\ \E start \in 0..MaxDay, end \in 0..MaxDay,
          chunk_days \in 1..MaxChunkDays, overlap_days \in 1..MaxOverlapDays :
            /\ plan_args = [start |-> start, end |-> end,
                            chunk_days |-> chunk_days, overlap_days |-> overlap_days]
            /\ cur_start = start
    /\ chunks = <<>>

\* lines 105-110: one pass of the loop body
LoopBody ==
    /\ plan_pc = "loop"
    /\ cur_start <= plan_args.end
    /\ Len(chunks) < WindowCap
    /\ LET cur_end == window_end(cur_start, plan_args.chunk_days, plan_args.end)
       IN  /\ chunks' = Append(chunks, <<cur_start, cur_end>>)
           /\ IF reached_end(cur_end, plan_args.end)
              THEN /\ plan_pc' = "returned"
                   /\ UNCHANGED cur_start
              ELSE /\ cur_start' = next_start(cur_end, plan_args.overlap_days)
                   /\ UNCHANGED plan_pc
    /\ UNCHANGED plan_args
    /\ UNCHANGED <<main_vars, fn_vars, item_vars, occ_vars, crawl_vars>>

\* lines 105, 111: the loop test fails and the list is returned
LoopExit ==
    /\ plan_pc = "loop"
    /\ ~(cur_start <= plan_args.end)
    /\ plan_pc' = "returned"
    /\ UNCHANGED <<plan_args, cur_start, chunks>>
    /\ UNCHANGED <<main_vars, fn_vars, item_vars, occ_vars, crawl_vars>>

NextPlan ==
    \/ LoopBody
    \/ LoopExit

SpecPlan == InitPlan /\ [][NextPlan]_vars

\* a loop that can take another pass takes it
SpecPlanFair == InitPlan /\ [][NextPlan]_vars /\ WF_vars(NextPlan)

\* ------------------------------------------- the entry parser on its own
\* the parsing loop of fetch_chunk on a timeline of one drawn entry
ItemDates == {NoDate, 0, 1}

ItemTimestamps == {NoTimestamp, BadTimestamp, 0, 1}

\* numbers and numeric strings of either sign, and each of the other kinds
ItemValues ==
    [kind : {"number", "text"}, n : (0 - MaxValue)..MaxValue]
        \cup [kind : {"lt1", "empty", "none", "junk", "absent"}, n : {0}]

InitItem ==
    /\ MainOff
    /\ FnOff
    /\ PlanOff
    /\ OccOff
    /\ CrawlOff
    /\ item_pc = "draw"
    /\ \E d \in ItemDates, t \in ItemTimestamps, v \in ItemValues :
          item = [date |-> d, timestamp |-> t, value |-> v]
    /\ item_row = <<>>

\* lines 176-181: every entry converts and the rows are returned
ParseTimeline ==
    /\ item_pc = "draw"
    /\ ~parse_raises(<<item>>)
    /\ item_row' = parse_rows(<<item>>)
    /\ item_pc' = "returned"
    /\ UNCHANGED item
    /\ UNCHANGED <<main_vars, fn_vars, plan_vars, occ_vars, crawl_vars>>

\* lines 135, 177: int() raises inside timeline_item_to_row and nothing in
\* fetch_chunk catches it
ParseTimelineRaises ==
    /\ item_pc = "draw"
    /\ parse_raises(<<item>>)
    /\ item_pc' = "raised"
    /\ UNCHANGED <<item, item_row>>
    /\ UNCHANGED <<main_vars, fn_vars, plan_vars, occ_vars, crawl_vars>>

NextItem ==
    \/ ParseTimeline
    \/ ParseTimelineRaises

SpecItem == InitItem /\ [][NextItem]_vars

\* --------------------------------------------- editCSV: the name classifier
\* classify_csv applies get_occupation_type to the name of each row
OccNames == <<"A", "B">>

\* calls followed for one name; the code sets no limit
MaxCalls == 4

\* the order in which the reply is searched for a category
Categories == <<"Politician", "Entrepreneur", "Celebrity">>

\* a reply, as the set of categories whose name it contains in any case
Replies == SUBSET {"Politician", "Entrepreneur", "Celebrity"}

\* editCSV lines 37-42: the first category of the list found in the text,
\* "Celebrity" when none is
normalize(text) ==
    IF \E c \in DOMAIN Categories : Categories[c] \in text
    THEN Categories[CHOOSE c \in DOMAIN Categories :
            /\ Categories[c] \in text
            /\ \A d \in DOMAIN Categories : Categories[d] \in text => c <= d]
    ELSE "Celebrity"

InitOcc ==
    /\ MainOff
    /\ FnOff
    /\ PlanOff
    /\ ItemOff
    /\ CrawlOff
    /\ occ_pc = "call"
    /\ occ_row = 1
    /\ occ_calls = 0
    /\ occ_text = {}
    /\ occ_out = <<>>

\* editCSV lines 26-31: the API call returns a reply
ApiReply ==
    /\ occ_pc = "call"
    /\ occ_calls < MaxCalls
    /\ occ_calls' = occ_calls + 1
    /\ \E text \in Replies : occ_text' = text
    /\ occ_pc' = "normalize"
    /\ UNCHANGED <<occ_row, occ_out>>
    /\ UNCHANGED <<main_vars, fn_vars, plan_vars, item_vars, crawl_vars>>

\* editCSV lines 26-33: the API call raises and the handler prints the error
ApiError ==
    /\ occ_pc = "call"
    /\ occ_calls < MaxCalls
    /\ occ_calls' = occ_calls + 1
    /\ occ_pc' = "sleep"
    /\ UNCHANGED <<occ_row, occ_text, occ_out>>
    /\ UNCHANGED <<main_vars, fn_vars, plan_vars, item_vars, crawl_vars>>

\* editCSV lines 34-35: after the sleep the function calls itself again,
\* whatever the number of calls already made
Retry ==
    /\ occ_pc = "sleep"
    /\ occ_pc' = "call"
    /\ UNCHANGED <<occ_row, occ_calls, occ_text, occ_out>>
    /\ UNCHANGED <<main_vars, fn_vars, plan_vars, item_vars, crawl_vars>>

\* editCSV lines 37-42, 46: the category is returned through every pending
\* call and stored for the row; the next row follows
Normalize ==
    /\ occ_pc = "normalize"
    /\ occ_out' = Append(occ_out, normalize(occ_text))
    /\ occ_calls' = 0
    /\ IF occ_row = Len(OccNames)
       THEN occ_pc' = "done" /\ UNCHANGED occ_row
       ELSE occ_pc' = "call" /\ occ_row' = occ_row + 1
    /\ UNCHANGED occ_text
    /\ UNCHANGED <<main_vars, fn_vars, plan_vars, item_vars, crawl_vars>>

NextOcc ==
    \/ ApiReply
    \/ ApiError
    \/ Retry
    \/ Normalize

SpecOcc == InitOcc /\ [][NextOcc]_vars

\* ------------------------------------------------ crawl: the channel fetcher
\* crawl.main with an initialised API client, over three channels
trusted_channel_ids == <<"c1", "c2", "c3">>

\* what a fetch that succeeds collects: no video that qualifies, one, or two
VideoLists == {<<>>, <<"v1">>, <<"v1", "v2">>}

\* CACHE_FILE before the first run: absent, or holding the first channel, or
\* holding the second with an empty list
CacheFiles == {<<>>, Put(<<>>, "c1", <<"v1">>), Put(<<>>, "c2", <<>>)}

channel_id == trusted_channel_ids[crawl_ch]

InitCrawl ==
    /\ MainOff
    /\ FnOff
    /\ PlanOff
    /\ ItemOff
    /\ OccOff
    /\ crawl_pc = "start"
    /\ crawl_ch = 1
    /\ crawl_cache = <<>>
    /\ crawl_file \in CacheFiles
    /\ all_videos = <<>>
    /\ crawl_failed = {}
    /\ crawl_run = 1

\* crawl.py lines 232-233: cache = load_cache(); all_videos = {}
LoadCache ==
    /\ crawl_pc = "start"
    /\ crawl_cache' = crawl_file
    /\ all_videos' = <<>>
    /\ crawl_ch' = 1
    /\ crawl_pc' = "channel"
    /\ UNCHANGED <<crawl_file, crawl_failed, crawl_run>>
    /\ UNCHANGED <<main_vars, fn_vars, plan_vars, item_vars, occ_vars>>

\* crawl.py lines 78-81, 238-239: the channel is in the cache
ChannelCached ==
    /\ crawl_pc = "channel"
    /\ crawl_ch <= Len(trusted_channel_ids)
    /\ channel_id \in DOMAIN crawl_cache
    /\ all_videos' = Put(all_videos, channel_id, crawl_cache[channel_id])
    /\ crawl_ch' = crawl_ch + 1
    /\ UNCHANGED <<crawl_pc, crawl_cache, crawl_file, crawl_failed, crawl_run>>
    /\ UNCHANGED <<main_vars, fn_vars, plan_vars, item_vars, occ_vars>>

\* crawl.py lines 87-176, 238-239: every page is searched, the videos are
\* stored under the channel and the cache is saved
ChannelFetched ==
    /\ crawl_pc = "channel"
    /\ crawl_ch <= Len(trusted_channel_ids)
    /\ channel_id \notin DOMAIN crawl_cache
    /\ \E videos_details \in VideoLists :
          /\ crawl_cache' = Put(crawl_cache, channel_id, videos_details)
          /\ crawl_file' = Put(crawl_cache, channel_id, videos_details)
          /\ all_videos' = Put(all_videos, channel_id, videos_details)
    /\ crawl_ch' = crawl_ch + 1
    /\ UNCHANGED <<crawl_pc, crawl_failed, crawl_run>>
    /\ UNCHANGED <<main_vars, fn_vars, plan_vars, item_vars, occ_vars>>

\* crawl.py lines 106-117, 238-239: the search fails for good and the
\* function returns [] before it reaches the cache update
ChannelFailed ==
    /\ crawl_pc = "channel"
    /\ crawl_ch <= Len(trusted_channel_ids)
    /\ channel_id \notin DOMAIN crawl_cache
    /\ all_videos' = Put(all_videos, channel_id, <<>>)
    /\ crawl_failed' = crawl_failed \cup {channel_id}
    /\ crawl_ch' = crawl_ch + 1
    /\ UNCHANGED <<crawl_pc, crawl_cache, crawl_file, crawl_run>>
    /\ UNCHANGED <<main_vars, fn_vars, plan_vars, item_vars, occ_vars>>

\* crawl.py lines 242-244: save_cache(all_videos)
SaveAllVideos ==
    /\ crawl_pc = "channel"
    /\ crawl_ch > Len(trusted_channel_ids)
    /\ crawl_file' = all_videos
    /\ crawl_pc' = "done"
    /\ UNCHANGED <<crawl_ch, crawl_cache, all_videos, crawl_failed, crawl_run>>
    /\ UNCHANGED <<main_vars, fn_vars, plan_vars, item_vars, occ_vars>>

\* crawl.py lines 246-253: the script is run again
CrawlAgain ==
    /\ crawl_pc = "done"
    /\ crawl_run < MaxRuns
    /\ crawl_run' = crawl_run + 1
    /\ crawl_pc' = "start"
    /\ crawl_ch' = 1
    /\ crawl_cache' = <<>>
    /\ all_videos' = <<>>
    /\ crawl_failed' = {}
    /\ UNCHANGED crawl_file
    /\ UNCHANGED <<main_vars, fn_vars, plan_vars, item_vars, occ_vars>>

NextCrawl ==
    \/ LoadCache
    \/ ChannelCached
    \/ ChannelFetched
    \/ ChannelFailed
    \/ SaveAllVideos
    \/ CrawlAgain

SpecCrawl == InitCrawl /\ [][NextCrawl]_vars

\* ================================================================ properties
FirstVal(df) == df[1].value

LastVal(df) == df[Len(df)].value

LastDate(df) == df[Len(df)].date

NonEmptyChunks(frames) == frames # <<>> /\ \A i \in DOMAIN frames : frames[i] # <<>>

Validated == fn_pc \in {"validated", "rescaled"}

\* ---- C4
\* C4: among chunk sets of non-empty chunks, has_bad_edges rejects with the
\* reason "zero start/end" whenever some chunk other than the last has first
\* value 0 or last value 0, and accepts a set whose only zero first or last
\* value is the last value of the last chunk.
C4_ZeroEdgeRule ==
    (Validated /\ NonEmptyChunks(fn_frames)) =>
        LET n == Len(fn_frames)
        IN  /\ (\E i \in 1..(n - 1) :
                    FirstVal(fn_frames[i]) = 0 \/ LastVal(fn_frames[i]) = 0)
                 => fn_verdict = <<TRUE, Reason("zero start/end", 0)>>
            /\ ( /\ \A i \in 1..n : FirstVal(fn_frames[i]) # 0
                 /\ \A i \in 1..(n - 1) : LastVal(fn_frames[i]) # 0
                 /\ LastVal(fn_frames[n]) = 0 )
                 => fn_verdict = <<FALSE, NoReason>>

\* a set of three chunks accepted although the last chunk ends on 0
C4_Witness ==
    /\ Validated
    /\ Len(fn_frames) = 3
    /\ NonEmptyChunks(fn_frames)
    /\ LastVal(fn_frames[3]) = 0
    /\ ~fn_verdict[1]

\* ---- C5
\* C5: has_bad_edges rejects every chunk set in which some adjacent pair of
\* chunks, wherever it stands, has 0 as the last value of the earlier chunk or
\* as the first value of the later chunk.
C5_ZeroOverlapRejected ==
    (Validated /\
     \E i \in 2..Len(fn_frames) :
        /\ fn_frames[i - 1] # <<>>
        /\ fn_frames[i] # <<>>
        /\ (LastVal(fn_frames[i - 1]) = 0 \/ FirstVal(fn_frames[i]) = 0))
    => fn_verdict[1]

\* rejected for the first value of the last chunk alone
C5_Witness ==
    /\ Validated
    /\ Len(fn_frames) = 3
    /\ NonEmptyChunks(fn_frames)
    /\ FirstVal(fn_frames[1]) # 0 /\ LastVal(fn_frames[1]) # 0
    /\ FirstVal(fn_frames[2]) # 0 /\ LastVal(fn_frames[2]) # 0
    /\ FirstVal(fn_frames[3]) = 0
    /\ fn_verdict[1]

\* ---- C6
HasEmpty(frames) == frames = <<>> \/ \E i \in DOMAIN frames : frames[i] = <<>>

FirstEmpty(frames) == First({i \in DOMAIN frames : frames[i] = <<>>})

\* C6 as claimed: whenever the chunk list is empty or holds an empty chunk, the
\* reason returned is the empty-chunk reason ("empty frames", or "empty chunk k"
\* for an empty chunk k), whatever the values of the other chunks.
C6_EmptyReasonFirst ==
    (Validated /\ HasEmpty(fn_frames)) =>
        /\ fn_verdict[1]
        /\ IF fn_frames = <<>>
           THEN fn_verdict[2] = Reason("empty frames", 0)
           ELSE /\ fn_verdict[2].msg = "empty chunk"
                /\ fn_verdict[2].chunk \in DOMAIN fn_frames
                /\ fn_frames[fn_verdict[2].chunk] = <<>>

\* C6 amended: a chunk list that is empty or holds an empty chunk is always
\* rejected; the reason is "empty frames" for the empty list, and otherwise
\* "empty chunk k" for the first empty chunk k unless a chunk before k has
\* first value 0 or last value 0, in which case it is "zero start/end".
C6_EmptyReasonInChunkOrder ==
    (Validated /\ HasEmpty(fn_frames)) =>
        /\ fn_verdict[1]
        /\ IF fn_frames = <<>>
           THEN fn_verdict[2] = Reason("empty frames", 0)
           ELSE LET k == FirstEmpty(fn_frames)
                IN  IF \E j \in 1..(k - 1) :
                           FirstVal(fn_frames[j]) = 0 \/ LastVal(fn_frames[j]) = 0
                    THEN fn_verdict[2] = Reason("zero start/end", 0)
                    ELSE fn_verdict[2] = Reason("empty chunk", k)

\* an empty chunk reported although a later chunk starts on 0
C6_Witness ==
    /\ Validated
    /\ Len(fn_frames) = 3
    /\ fn_frames[1] # <<>> /\ FirstVal(fn_frames[1]) # 0 /\ LastVal(fn_frames[1]) # 0
    /\ fn_frames[2] = <<>>
    /\ fn_frames[3] # <<>> /\ FirstVal(fn_frames[3]) = 0
    /\ fn_verdict[2] = Reason("empty chunk", 2)

\* ---- C2
Rescaled == fn_pc = "rescaled"

\* each chunk starts on the date the chunk before it ends on
Aligned(frames) ==
    \A i \in 2..Len(frames) : frames[i][1].date = LastDate(frames[i - 1])

\* the date a chunk ends on is the date of no earlier row of that chunk
LastDateOnce(frames) ==
    \A i \in 1..(Len(frames) - 1) :
        DateMatches(frames[i], LastDate(frames[i])) = {Len(frames[i])}

OverlapAgrees(frames, out) ==
    /\ ~out.raised
    /\ Len(out.frames) = Len(frames)
    /\ \A i \in DOMAIN frames : Len(out.frames[i]) = Len(frames[i])
    /\ \A i \in 2..Len(frames) :
          out.frames[i - 1][Len(frames[i - 1])].scaled_value
              = out.frames[i][1].scaled_value

\* C2 as claimed: for every accepted chunk sequence in which each chunk starts
\* on the date the previous chunk ends on, the overlap day has the same
\* scaled_value in the last row of chunk i-1 and in the first row of chunk i,
\* and both rows are in the output.
C2_OverlapAgrees ==
    (Rescaled /\ ~fn_verdict[1] /\ Aligned(fn_frames))
    => OverlapAgrees(fn_frames, fn_scaled)

\* C2 amended: the same, for the sequences in which moreover the date on which
\* a chunk other than the last ends is the date of no earlier row of that chunk.
C2_OverlapAgreesUniqueDate ==
    (Rescaled /\ ~fn_verdict[1] /\ Aligned(fn_frames) /\ LastDateOnce(fn_frames))
    => OverlapAgrees(fn_frames, fn_scaled)

\* three aligned chunks, the third one scaled by a ratio other than 1
C2_Witness ==
    /\ Rescaled
    /\ ~fn_verdict[1]
    /\ Len(fn_frames) = 3
    /\ Aligned(fn_frames)
    /\ LastDateOnce(fn_frames)
    /\ Len(fn_frames[2]) = 2
    /\ fn_scaled.frames[2][2].scaled_value # FromInt(fn_frames[2][2].value)
    /\ fn_scaled.frames[3][1].scaled_value # FromInt(fn_frames[3][1].value)

\* ---- C3
\* value * p / c = sv for fractions p, sv and integers value, c # 0
IsScaledBy(sv, value, p, c) == sv[1] * p[2] * c = value * p[1] * sv[2]

KeepsRow(out_row, row) ==
    /\ out_row.date = row.date
    /\ out_row.value = row.value
    /\ out_row.season = row.season

\* C3: whenever rescale_chunks returns, the first chunk has scaled_value =
\* value in every row, and every row of a later chunk i has scaled_value =
\* value * ratio_i with ratio_i = (scaled_value of the scaled chunk i-1 at the
\* first date of chunk i) / (value of chunk i at that date), that value being
\* nonzero; dates, values and seasons are those of the input.
C3_ChainLink ==
    (Rescaled /\ ~fn_scaled.raised /\ fn_frames # <<>>) =>
        LET out == fn_scaled.frames
        IN  /\ Len(out) = Len(fn_frames)
            /\ \A i \in DOMAIN fn_frames :
                  /\ Len(out[i]) = Len(fn_frames[i])
                  /\ \A k \in DOMAIN fn_frames[i] : KeepsRow(out[i][k], fn_frames[i][k])
            /\ \A k \in DOMAIN fn_frames[1] :
                  out[1][k].scaled_value = <<fn_frames[1][k].value, 1>>
            /\ \A i \in 2..Len(fn_frames) :
                  LET day == fn_frames[i][1].date
                      p == out[i - 1][First(DateMatches(out[i - 1], day))].scaled_value
                      c == fn_frames[i][First(DateMatches(fn_frames[i], day))].value
                  IN  c # 0 =>
                        \A k \in DOMAIN fn_frames[i] :
                            /\ out[i][k].scaled_value[2] > 0
                            /\ IsScaledBy(out[i][k].scaled_value, fn_frames[i][k].value, p, c)

\* the second chunk scaled by 2 (overlap 2 over 1), the third by another ratio
C3_Witness ==
    /\ Rescaled
    /\ ~fn_scaled.raised
    /\ Len(fn_frames) = 3
    /\ fn_scaled.frames[1][Len(fn_frames[1])].scaled_value = <<2, 1>>
    /\ fn_frames[2][1].value = 1
    /\ Len(fn_frames[2]) = 2
    /\ fn_scaled.frames[2][2].scaled_value = <<2 * fn_frames[2][2].value, 1>>
    /\ fn_frames[2][2].value # 0
    /\ fn_scaled.frames[3][1].scaled_value # FromInt(fn_frames[3][1].value)

\* ---- properties of a run of main
KeyOf(k, i) == cache_fp(names[k], schedule[i][1], schedule[i][2])

\* the chunk set main builds for keyword k once all its windows are cached
FramesOf(k) ==
    [i \in DOMAIN schedule |->
        with_season(parse_rows(json_loads(cache[KeyOf(k, i)]).timeline), i)]

\* rows this process has appended to a file for a keyword
Appended(file, from, name) ==
    Cardinality({j \in DOMAIN file.lines :
                    /\ j > from
                    /\ file.lines[j].kind = "row"
                    /\ file.lines[j].name = name})

RawRows(k) == Appended(raw_csv, base.raw, names[k])

ScaledRows(k) == Appended(scaled_csv, base.scaled, names[k])

BadRows(k) == Appended(bad_csv, base.bad, names[k])

\* ---- C1
\* C1: when main has returned, every keyword has, among the rows of this run,
\* either exactly one row in the unlinkable table and none in the raw and
\* scaled tables, exactly when has_bad_edges rejected its chunk set, or rows in
\* the raw and in the scaled table and none in the unlinkable table, exactly
\* when has_bad_edges accepted it.
C1_OneOutcomePerKeyword ==
    pc = "done" =>
        \A k \in DOMAIN names :
            IF has_bad_edges(FramesOf(k))[1]
            THEN BadRows(k) = 1 /\ RawRows(k) = 0 /\ ScaledRows(k) = 0
            ELSE BadRows(k) = 0 /\ RawRows(k) > 0 /\ ScaledRows(k) > 0

\* a second run that returned with one keyword rejected and the other linked
C1_Witness ==
    /\ pc = "done"
    /\ run = 2
    /\ has_bad_edges(FramesOf(1))[1]
    /\ ~has_bad_edges(FramesOf(2))[1]
    /\ BadRows(1) = 1
    /\ RawRows(2) > 0

\* ---- C7
\* C7: a remote call that fails with no cache entry for its window does not
\* end the run: no process dies of the fetch failure.
C7_FetchFailureAbsorbed == ~(pc = "crashed" /\ err = "RemoteFetchError")

\* ---- C8
\* C8: a call of fetch_chunk for a (keyword, window) for which an earlier call
\* has returned, in this run or in an earlier one, issues no remote request,
\* and it returns the rows the first call returned.
C8_SecondCallFromCache ==
    /\ (pc = "cache" \/ (pc = "crashed" /\ err = "RemoteFetchError"))
          => key \notin DOMAIN returned
    /\ \A i \in DOMAIN raw_frames :
          /\ KeyOf(kw, i) \in DOMAIN returned
          /\ raw_frames[i] = with_season(returned[KeyOf(kw, i)], i)

\* the second run has fetched all windows of the first keyword again and the
\* upstream source has still seen the four requests of the first run only
C8_Witness ==
    /\ run = 2
    /\ kw = 1
    /\ pc = "validate"
    /\ requests = Len(schedule)
    /\ \E i \in DOMAIN raw_frames : raw_frames[i] # with_season(parse_rows(Nominal(schedule[i][1], schedule[i][2]).timeline), i)

\* ---- C9
\* C9: on a cache miss fetch_chunk issues one remote request, then writes the
\* response under its key with no further request, and only then parses; the
\* parsing leaves the cache alone, so a call that fails in parsing has its
\* cache entry, and a call that finds its cache entry issues no request.
C9_CacheBeforeParse ==
    [][ /\ (pc = "fetch" /\ key \notin DOMAIN cache /\ pc' \notin {"start", "interrupted"})
            => (requests' = requests + 1 /\ cache' = cache
                /\ pc' \in {"cache", "crashed"})
        /\ (pc = "cache" /\ pc' \notin {"start", "interrupted"})
            => (requests' = requests /\ pc' = "parse" /\ data' = data
                /\ key \in DOMAIN cache' /\ json_loads(cache'[key]) = data)
        /\ (pc' = "parse") => (key' \in DOMAIN cache')
        /\ (pc = "parse") => (cache' = cache /\ requests' = requests)
        /\ (pc' = "crashed" /\ err' = "ValueError") => (key' \in DOMAIN cache')
        /\ (pc = "fetch" /\ key \in DOMAIN cache) => (requests' = requests)
      ]_vars

\* the second run failed in parsing the cached response of the first window
\* of the first keyword, which was requested once
C9_Witness ==
    /\ run = 2
    /\ pc = "crashed"
    /\ err = "ValueError"
    /\ kw = 1
    /\ idx = 1
    /\ requests = 1

\* ---- C10
\* main is through with keyword k in this run
Settled(k) ==
    \/ k < kw
    \/ k = kw /\ pc = "done"
    \/ k = kw /\ pc = "crashed" /\ err = "IndexError"

\* C10: once the process has ended, every keyword that main was through with
\* and that has_bad_edges accepted has as many rows of this run in the raw
\* table as its chunks have rows together, and as many in the scaled table.
C10_AcceptedKeywordRows ==
    pc \in {"done", "crashed"} =>
        \A k \in DOMAIN names :
            (Settled(k) /\ ~has_bad_edges(FramesOf(k))[1]) =>
                /\ RawRows(k) = Len(Concat(FramesOf(k)))
                /\ ScaledRows(k) = RawRows(k)

\* ---- C11
IsPrefix(s, t) == Len(s) <= Len(t) /\ \A j \in DOMAIN s : t[j] = s[j]

KeepsLines(file, after) ==
    /\ file.exists => after.exists
    /\ IsPrefix(file.lines, after.lines)

\* C11: no step of any process - a step of main, a KeyboardInterrupt, a crash,
\* a re-execution - removes, changes or moves a line that one of the three
\* output files already holds.
C11_AppendOnly ==
    [][ /\ KeepsLines(raw_csv, raw_csv')
        /\ KeepsLines(scaled_csv, scaled_csv')
        /\ KeepsLines(bad_csv, bad_csv') ]_vars

\* a second run, interrupted after it has appended raw rows behind those of
\* the first run
C11_Witness ==
    /\ pc = "interrupted"
    /\ run = 2
    /\ base.raw > 0
    /\ base.bad > 0
    /\ Len(raw_csv.lines) > base.raw

\* ---- C12
Headers(file) == {j \in DOMAIN file.lines : file.lines[j].kind = "header"}

HasRows(file) == \E j \in DOMAIN file.lines : file.lines[j].kind = "row"

HeaderOnce(file) ==
    HasRows(file) => file.lines[1].kind = "header" /\ Cardinality(Headers(file)) = 1

\* C12: when the first run of main, started with none of the three output
\* files present, has returned, every file that holds a row begins with the
\* header line and holds it exactly once.
C12_HeaderOnce ==
    (run = 1 /\ pc = "done") =>
        HeaderOnce(raw_csv) /\ HeaderOnce(scaled_csv) /\ HeaderOnce(bad_csv)

\* ---- C13, C14, C15
PlanInRange == plan_args.start <= plan_args.end

WindowStart(i) == chunks[i][1]

WindowEnd(i) == chunks[i][2]

\* C13: with start <= end (and the chunk length not below the overlap, as
\* configured), every window (s, e) appended by generate_chunks has
\* start <= s <= e <= end.
C13_WindowsInRange ==
    (PlanInRange /\ plan_args.chunk_days >= plan_args.overlap_days) =>
        \A i \in DOMAIN chunks :
            /\ plan_args.start <= WindowStart(i)
            /\ WindowStart(i) <= WindowEnd(i)
            /\ WindowEnd(i) <= plan_args.end

\* a returned plan of several windows whose last window was cut at end
C13_Witness ==
    /\ plan_pc = "returned"
    /\ PlanInRange
    /\ plan_args.chunk_days > plan_args.overlap_days
    /\ Len(chunks) >= 2
    /\ WindowEnd(Len(chunks)) - WindowStart(Len(chunks)) + 1 < plan_args.chunk_days

SharedDays(i) ==
    {d \in plan_args.start..plan_args.end :
        /\ WindowStart(i) <= d /\ d <= WindowEnd(i)
        /\ WindowStart(i + 1) <= d /\ d <= WindowEnd(i + 1)}

\* C14: with start <= end and chunk_days > overlap_days >= 1, each window and
\* the one after it have exactly overlap_days days in common, and with
\* overlap_days = 1 the later one starts on the day the earlier one ends.
C14_ExactOverlap ==
    (PlanInRange /\ plan_args.chunk_days > plan_args.overlap_days) =>
        \A i \in 1..(Len(chunks) - 1) :
            /\ Cardinality(SharedDays(i)) = plan_args.overlap_days
            /\ plan_args.overlap_days = 1 => WindowStart(i + 1) = WindowEnd(i)

\* the example: days 0..9 with chunk_days 5 and overlap_days 1
C14_Witness ==
    /\ plan_pc = "returned"
    /\ plan_args = [start |-> 0, end |-> 9, chunk_days |-> 5, overlap_days |-> 1]
    /\ chunks = << <<0, 4>>, <<4, 8>>, <<8, 9>> >>

\* C15: with start <= end, the list generate_chunks returns ends with a window
\* that ends on end, and no window before it ends on end.
C15_LastWindowEndsOnEnd ==
    (PlanInRange /\ plan_pc = "returned") =>
        /\ chunks # <<>>
        /\ WindowEnd(Len(chunks)) = plan_args.end
        /\ \A i \in 1..(Len(chunks) - 1) : WindowEnd(i) # plan_args.end

\* a returned plan whose last window is shorter than chunk_days and ends on end
C15_Witness ==
    /\ plan_pc = "returned"
    /\ PlanInRange
    /\ Len(chunks) >= 3
    /\ WindowEnd(Len(chunks)) = plan_args.end
    /\ WindowEnd(Len(chunks)) - WindowStart(Len(chunks)) + 1 < plan_args.chunk_days
    /\ plan_args.overlap_days = 2

\* ---- C16
NoUsableDate(it) == it.date = NoDate /\ it.timestamp \in {NoTimestamp, BadTimestamp}

NoUsableValue(it) == it.value.kind \in {"absent", "none", "empty", "junk"}

Malformed(it) ==
    NoUsableDate(it) \/ it.timestamp = BadTimestamp \/ NoUsableValue(it)

\* C16: once the parsing loop of fetch_chunk is over for a timeline whose
\* entry has no usable date and no usable timestamp, or a non-integer
\* timestamp, or a missing or non-numeric value, the call has returned and
\* the entry is in the chunk as one point, of value 0 where it is the value
\* that is missing or non-numeric.
C16_MalformedEntryIsZeroPoint ==
    (item_pc # "draw" /\ Malformed(item)) =>
        /\ item_pc = "returned"
        /\ Len(item_row) = 1
        /\ NoUsableValue(item) => item_row[1].value = 0

\* ---- C17
\* C17: every point of a chunk that fetch_chunk returns has a value >= 0,
\* whatever the entry carries as its value.
C17_ValueNonNegative ==
    item_pc = "returned" => \A j \in DOMAIN item_row : item_row[j].value >= 0

\* ---- C18
\* No step of main or fetch_chunk is a delay (the only time.sleep of the
\* module is the restart timer's, line 10), so a request is preceded by a
\* delay since the previous request of the process only when there is no
\* previous request of the process.
\* C18: within a run, no remote request is issued right after the previous
\* one without a delay step between them.
C18_DelayBetweenRequests ==
    [][requests' > requests => requests = base.requests]_vars

\* ---- C19
Balanced ==
    \A k \in DOMAIN names :
        Appended(raw_csv, 0, names[k]) = Appended(scaled_csv, 0, names[k])

\* C19: whenever execution stops - main returns, a KeyboardInterrupt ends the
\* process, the restart timer re-executes it - every keyword has as many
\* rows in the raw file as in the scaled file.
C19_RawScaledBalanced ==
    [][(TimerRestart \/ Interrupt \/ (pc # "done" /\ pc' = "done")) => Balanced']_vars

\* ---- C20
Before(file, from, name) == Appended(file, 0, name) - Appended(file, from, name)

\* C20: a keyword that had rows in the raw, the scaled or the unlinkable file
\* when a process started gets no further row appended to that file by
\* that process.
C20_AppendedAtMostOnce ==
    \A k \in DOMAIN names :
        /\ Before(raw_csv, base.raw, names[k]) > 0 => RawRows(k) = 0
        /\ Before(scaled_csv, base.scaled, names[k]) > 0 => ScaledRows(k) = 0
        /\ Before(bad_csv, base.bad, names[k]) > 0 => BadRows(k) = 0

\* ---- C21
AllNonEmpty(frames) == frames # <<>> /\ \A i \in DOMAIN frames : frames[i] # <<>>

NoZeroOverlap(frames) ==
    \A i \in 2..Len(frames) : LastVal(frames[i - 1]) # 0 /\ FirstVal(frames[i]) # 0

\* the rules as the claim words them: the last chunk exempt from both tests
RulesLastExempt(frames) ==
    /\ AllNonEmpty(frames)
    /\ \A i \in 1..(Len(frames) - 1) : FirstVal(frames[i]) # 0 /\ LastVal(frames[i]) # 0
    /\ NoZeroOverlap(frames)

\* the rules with the last chunk exempt from the test of its last value only
RulesLastEndExempt(frames) ==
    /\ AllNonEmpty(frames)
    /\ \A i \in DOMAIN frames : FirstVal(frames[i]) # 0
    /\ \A i \in 1..(Len(frames) - 1) : LastVal(frames[i]) # 0
    /\ NoZeroOverlap(frames)

\* C21 as stated: has_bad_edges accepts a chunk set exactly when the list and
\* its chunks are non-empty, no chunk but the last has a zero first or last
\* value, and no overlap has a zero on either side; a single non-empty chunk
\* is accepted whatever its values.
C21_AcceptsIffRules ==
    Validated => (~fn_verdict[1] <=> RulesLastExempt(fn_frames))

\* C21 amended: has_bad_edges accepts exactly when the list and its chunks are
\* non-empty, no chunk at all has a zero first value, no chunk but the last
\* has a zero last value, and no overlap has a zero on either side; a single
\* non-empty chunk is accepted exactly when its first value is not zero.
C21_AcceptsIffRulesLastEndExempt ==
    Validated =>
        /\ ~fn_verdict[1] <=> RulesLastEndExempt(fn_frames)
        /\ (Len(fn_frames) = 1 /\ fn_frames[1] # <<>>) =>
               (~fn_verdict[1] <=> FirstVal(fn_frames[1]) # 0)

\* an accepted single chunk that ends on zero, and so is exempt
C21_Witness ==
    /\ Validated
    /\ Len(fn_frames) = 1
    /\ Len(fn_frames[1]) = 2
    /\ FirstVal(fn_frames[1]) # 0
    /\ LastVal(fn_frames[1]) = 0
    /\ ~fn_verdict[1]

\* ---- C22
\* C22: for every chunk set that has_bad_edges accepts, rescale_chunks
\* returns without raising, with one scaled chunk per input chunk.
C22_RescaleNeverRaises ==
    (Rescaled /\ ~fn_verdict[1]) =>
        /\ ~fn_scaled.raised
        /\ Len(fn_scaled.frames) = Len(fn_frames)

\* ---- C23
\* line 220: the raw value of a chunk at its overlap day, its first date
OverlapValue(curr) == curr[First(DateMatches(curr, curr[1].date))].value

\* C23: whenever main is about to call rescale_chunks, has_bad_edges has
\* accepted the chunk set, and the raw value of every chunk from the second
\* on at its overlap day is not zero, so that no ratio falls back to 1.0.
C23_FallbackNeverTaken ==
    pc = "rescale" =>
        /\ ~has_bad_edges(raw_frames)[1]
        /\ \A i \in 2..Len(raw_frames) : OverlapValue(raw_frames[i]) # 0

\* the second keyword about to be rescaled after the first was rejected for
\* a zero edge
C23_Witness ==
    /\ pc = "rescale"
    /\ kw = 2
    /\ Len(raw_frames) = Len(schedule)
    /\ BadRows(1) = 1
    /\ \E i \in DOMAIN schedule :
          /\ FramesOf(1)[i] # <<>>
          /\ FirstVal(FramesOf(1)[i]) = 0

\* ---- C24
StartsIncrease == \A i \in 1..(Len(chunks) - 1) : WindowStart(i) < WindowStart(i + 1)

\* starts that increase from start and stay below end allow this many windows
FinitelyMany == Len(chunks) <= plan_args.end - plan_args.start + 1

\* C24 as stated: for every start <= end and every chunk_days >= 1 and
\* overlap_days >= 1, each new window starts strictly later than the one
\* before it, so that the loop is over after finitely many windows.
C24_Terminates ==
    PlanInRange => (StartsIncrease /\ FinitelyMany)

\* C24 amended: for every start <= end and every chunk_days > overlap_days >= 1
\* each new window starts strictly later than the one before it, the loop is
\* over after at most end - start + 1 windows, and generate_chunks returns.
C24_TerminatesWhenLonger ==
    (PlanInRange /\ plan_args.chunk_days > plan_args.overlap_days) =>
        ([](StartsIncrease /\ FinitelyMany) /\ <>(plan_pc = "returned"))

\* a call that returned after more than two passes of the loop
C24_Witness ==
    /\ plan_pc = "returned"
    /\ PlanInRange
    /\ plan_args.chunk_days = plan_args.overlap_days + 1
    /\ Len(chunks) >= 4

\* ---- C25
\* C25: get_occupation_type makes at most two API calls for a name - after a
\* second failed call it neither sleeps nor calls again - and every category
\* it returns is one of the three.
C25_RetriesOnce ==
    /\ occ_calls <= 2
    /\ occ_pc = "sleep" => occ_calls < 2
    /\ \A j \in DOMAIN occ_out : occ_out[j] \in {"Politician", "Entrepreneur", "Celebrity"}

\* ---- C26
\* C26: a fetch that fails leaves the cache passed to it and the cache file
\* as they were, and once main has completed the cache file holds no entry
\* for a channel whose fetch failed in that run.
C26_FailedFetchNotCached ==
    /\ \A c \in crawl_failed : c \notin DOMAIN crawl_cache
    /\ crawl_pc = "done" => \A c \in crawl_failed : c \notin DOMAIN crawl_file

====
